---- MODULE Spec2Model ----
(***************************************************************************)
(* Model of mqtt2elasticsearch.py: a bridge that subscribes to MQTT topics *)
(* and writes every received message as a document into an Elasticsearch   *)
(* or Opensearch index, provisioning the index on demand.                  *)
(*                                                                         *)
(* Strings that the program takes apart (index-name templates, index       *)
(* names) are sequences of one-character strings.  MQTT topics are         *)
(* sequences of topic levels (the text between the "/" separators), so two *)
(* topics are equal as Python strings iff they are equal here.             *)
(***************************************************************************)
EXTENDS Integers, Sequences, FiniteSets, TLC

VARIABLES
    CONFIG,       \* the parsed configuration file (line 27), None = key absent
    topic2index,  \* the parsed mapping file (line 33), in file order
    pc,           \* position of the main script
    exitCode,     \* process exit status, Running while the process is alive
    isElasticsearch, isOpensearch,   \* lines 204-205
    es,           \* the store client object (line 269), None before construction
    store,        \* the document store: the set of <<index name, body>> that exist
    today,        \* the local calendar date the system clock shows
    ticks,        \* number of midnights passed since the process started
    conn,         \* state of the broker connection
    subscribed,   \* topic filters the broker holds for this session
    delivered,    \* messages dispatched to on_message, in delivery order
    connects,     \* number of CONNACKs received so far
    provIdx,      \* position of the initial provisioning loop in topic2index
    calls,        \* every call made on the store client or broker client, in order
    last          \* record of the most recent direct call of a function under test

vars == <<CONFIG, topic2index, pc, exitCode, isElasticsearch, isOpensearch, es,
          store, today, ticks, conn, subscribed, delivered, connects, provIdx,
          calls, last>>

None == "None"
Running == -1

-----------------------------------------------------------------------------
(* Bounds of the model *)

MaxTicks == 1      \* midnights that may pass during one run
MaxMsgs == 2       \* messages the broker delivers during one run
MaxConnects == 2   \* CONNACKs received during one run (initial connect + reconnects)
MaxDirectCalls == 2   \* direct calls of createIndex / removeIndex in SpecProvision

-----------------------------------------------------------------------------
(* str.replace, strftime and the calendar *)

\* Python str.replace(old, new): every non-overlapping occurrence, left to right
RECURSIVE Replace(_, _, _)
Replace(s, old, new) ==
    IF Len(s) < Len(old) THEN s
    ELSE IF SubSeq(s, 1, Len(old)) = old
         THEN new \o Replace(SubSeq(s, Len(old) + 1, Len(s)), old, new)
         ELSE <<Head(s)>> \o Replace(Tail(s), old, new)

DigitChars == <<"0", "1", "2", "3", "4", "5", "6", "7", "8", "9">>

\* zero-padded decimal rendering of n in at least w characters (%Y -> w=4, %m, %d -> w=2)
RECURSIVE ZeroPad(_, _)
ZeroPad(n, w) ==
    IF w <= 1 /\ n < 10 THEN <<DigitChars[n + 1]>>
    ELSE ZeroPad(n \div 10, w - 1) \o <<DigitChars[(n % 10) + 1]>>

IsLeap(y) == (y % 4 = 0 /\ y % 100 # 0) \/ y % 400 = 0

DaysInMonth(y, m) ==
    IF m = 2 THEN (IF IsLeap(y) THEN 29 ELSE 28)
    ELSE IF m \in {4, 6, 9, 11} THEN 30 ELSE 31

\* the calendar date that follows date dt
NextDay(dt) ==
    IF dt.day < DaysInMonth(dt.year, dt.month)
    THEN [dt EXCEPT !.day = dt.day + 1]
    ELSE IF dt.month < 12
         THEN [year |-> dt.year, month |-> dt.month + 1, day |-> 1]
         ELSE [year |-> dt.year + 1, month |-> 1, day |-> 1]

\* datetime.strftime for the three formats the program uses
StrfY(dt) == ZeroPad(dt.year, 4)
Strfm(dt) == ZeroPad(dt.month, 2)
Strfd(dt) == ZeroPad(dt.day, 2)

TokY == <<"{", "Y", "}">>
Tokm == <<"{", "m", "}">>
Tokd == <<"{", "d", "}">>

\* prepareIndexName: the three replacements, each with its own datetime.today()
\* reading; r is the triple of dates the three readings returned
prepareIndexName(index, r) ==
    Replace(Replace(Replace(index, TokY, StrfY(r[1])), Tokm, Strfm(r[2])), Tokd, Strfd(r[3]))

\* the dates a reading of the clock can return when it shows dt and k more
\* midnights may pass
RECURSIVE DatesFrom(_, _)
DatesFrom(dt, k) == IF k = 0 THEN {dt} ELSE {dt} \cup DatesFrom(NextDay(dt), k - 1)

RECURSIVE DaysBetween(_, _)
DaysBetween(a, b) == IF a = b THEN 0 ELSE 1 + DaysBetween(NextDay(a), b)

\* n successive readings of the clock: non-decreasing, starting no earlier than
\* the current date, with at most k midnights passing in between
RECURSIVE ClockReads(_, _, _)
ClockReads(dt, k, n) ==
    IF n = 0 THEN {<<>>}
    ELSE UNION { { <<d>> \o rest : rest \in ClockReads(d, k - DaysBetween(dt, d), n - 1) }
                 : d \in DatesFrom(dt, k) }

-----------------------------------------------------------------------------
(* Python dict helpers: a dict is a function whose DOMAIN is its key set *)

EmptyDict == [k \in {} |-> None]

\* if k not in d: d[k] = v
SetDefault(d, k, v) == IF k \in DOMAIN d THEN d ELSE d @@ (k :> v)

-----------------------------------------------------------------------------
(* The document store behind the client object es *)

\* es.indices.exists(index=name)
IndexExists(st, name) == \E r \in st : r.name = name

\* es.indices.create(index=name, body=body)
IndexCreate(st, name, body) == st \cup {[name |-> name, body |-> body]}

\* es.indices.delete(index=name)
IndexDelete(st, name) == {r \in st : r.name # name}

Call(op, arg, body) == [op |-> op, arg |-> arg, body |-> body]

StoreOps == {"exists", "create", "delete", "index"}

-----------------------------------------------------------------------------
(* createIndex and removeIndex, as functions of the store, the call log and *)
(* the three clock readings r made by prepareIndexName                      *)

\* createIndex without the existence check
createIndex_Unconditional(st, cl, index, body, r) ==
    LET name == prepareIndexName(index, r) IN
    [store |-> IndexCreate(st, name, body),
     calls |-> cl \o <<Call("exists", name, ""), Call("create", name, body)>>]

createIndex(st, cl, index, body, r) ==
    LET name == prepareIndexName(index, r) IN
    IF ~IndexExists(st, name)
    THEN [store |-> IndexCreate(st, name, body),
          calls |-> cl \o <<Call("exists", name, ""), Call("create", name, body)>>]
    ELSE [store |-> st,
          calls |-> cl \o <<Call("exists", name, "")>>]

\* exit is TRUE when removeIndex ends the process (sys.exit() with status 0)
removeIndex(st, cl, index, exitAfterRemoval, r) ==
    LET name == prepareIndexName(index, r) IN
    IF IndexExists(st, name)
    THEN [store |-> IndexDelete(st, name),
          calls |-> cl \o <<Call("exists", name, ""), Call("delete", name, "")>>,
          exit |-> exitAfterRemoval]
    ELSE [store |-> st,
          calls |-> cl \o <<Call("exists", name, "")>>,
          exit |-> exitAfterRemoval]

-----------------------------------------------------------------------------
(* MQTT topics and payloads *)

\* topic2index.keys()
Keys(t2i) == {t2i[i].topic : i \in DOMAIN t2i}

\* topic in topic2index
HasKey(t2i, topic) == \E i \in DOMAIN t2i : t2i[i].topic = topic

\* topic2index[topic]
Lookup(t2i, topic) == t2i[CHOOSE i \in DOMAIN t2i : t2i[i].topic = topic]

\* the broker's matching of a topic name against a subscribed topic filter
RECURSIVE TopicMatches(_, _)
TopicMatches(filter, topic) ==
    IF filter = <<>> THEN topic = <<>>
    ELSE IF Head(filter) = "#" THEN TRUE
    ELSE IF topic = <<>> THEN FALSE
    ELSE (Head(filter) = "+" \/ Head(filter) = Head(topic))
         /\ TopicMatches(Tail(filter), Tail(topic))

\* sample payloads: a JSON object, text that is not JSON, bytes that are not UTF-8
GoodJson == "{\"t\": 21}"
NotJson == "not json"
NotUtf8 == "\\xff\\xfe"
Payloads == {GoodJson, NotJson, NotUtf8}

\* msg.payload.decode("utf-8") succeeds
Utf8Decodes(payload) == payload # NotUtf8

\* json.loads(str(msg.payload.decode("utf-8"))) succeeds
PayloadParses(payload) == Utf8Decodes(payload) /\ payload = GoodJson

-----------------------------------------------------------------------------
(* on_connect and on_message, as functions of the state they read *)

\* on_connect that subscribes to the first mapping key only
on_connect_FirstOnly(t2i, cl, rc) ==
    IF rc # 0
    THEN [exit |-> TRUE, subscribed |-> {}, calls |-> cl]
    ELSE [exit |-> FALSE,
          subscribed |-> {t2i[i].topic : i \in DOMAIN t2i \cap {1}},
          calls |-> cl \o [i \in DOMAIN t2i \cap {1} |-> Call("subscribe", t2i[i].topic, "")]]

\* on_connect(client, userdata, flags, rc): the subscribe calls it issues, or
\* sys.exit(1) for a non-zero return code
on_connect(t2i, cl, rc) ==
    IF rc # 0
    THEN [exit |-> TRUE, subscribed |-> {}, calls |-> cl]
    ELSE [exit |-> FALSE,
          subscribed |-> Keys(t2i),
          calls |-> cl \o [i \in 1..Len(t2i) |-> Call("subscribe", t2i[i].topic, "")]]

\* on_message without lines 165-167: the index is never provisioned on demand
on_message_NoProvision(st, cl, t2i, msg, r) ==
    IF ~HasKey(t2i, msg.topic)
    THEN [store |-> st, calls |-> cl, used |-> 0, raised |-> "KeyError"]
    ELSE
      LET entry == Lookup(t2i, msg.topic)
          index == prepareIndexName(entry.elasticIndex, SubSeq(r, 1, 3))
      IN  IF ~Utf8Decodes(msg.payload)
          THEN [store |-> st, calls |-> cl, used |-> 3, raised |-> "UnicodeDecodeError"]
          ELSE IF ~PayloadParses(msg.payload)
          THEN [store |-> st, calls |-> cl, used |-> 3, raised |-> "JSONDecodeError"]
          ELSE [store |-> st,
                calls |-> cl \o <<Call("index", index, msg.payload)>>,
                used |-> 3, raised |-> None]

\* on_message(client, userdata, msg); r holds six clock readings, of which the
\* first three are made by line 163 and the last three by createIndex when it
\* is called; used is the number of readings made; raised names the exception
\* that leaves the callback, None when it returns normally
on_message(st, cl, t2i, msg, r) ==
    IF ~HasKey(t2i, msg.topic)
    THEN [store |-> st, calls |-> cl, used |-> 0, raised |-> "KeyError"]
    ELSE
      LET entry == Lookup(t2i, msg.topic)
          index == prepareIndexName(entry.elasticIndex, SubSeq(r, 1, 3))
          cl1 == cl \o <<Call("exists", index, "")>>
          absent == ~IndexExists(st, index)
          c == IF absent
               THEN createIndex(st, cl1, index, entry.elasticBody, SubSeq(r, 4, 6))
               ELSE [store |-> st, calls |-> cl1]
          used == IF absent THEN 6 ELSE 3
      IN  IF ~Utf8Decodes(msg.payload)
          THEN [store |-> c.store, calls |-> c.calls, used |-> used,
                raised |-> "UnicodeDecodeError"]
          ELSE IF ~PayloadParses(msg.payload)
          THEN [store |-> c.store, calls |-> c.calls, used |-> used,
                raised |-> "JSONDecodeError"]
          ELSE [store |-> c.store,
                calls |-> c.calls \o <<Call("index", index, msg.payload)>>,
                used |-> used, raised |-> None]

-----------------------------------------------------------------------------
(* Inputs: configuration files, mapping files, initial store contents *)

TplTemp == <<"t", "-", "{", "Y", "}">>
TplLogs == <<"l", "-", "{", "Y", "}", ".", "{", "m", "}", ".", "{", "d", "}">>
TplStatic == <<"s">>
TplNested == <<"{", "{", "Y", "}", "m", "}">>
TplUnknown == <<"{", "x", "}", "{", "d", "}">>
TplRepeat == <<"{", "m", "}", "{", "m", "}", "{", "Y", "}">>
TplDayFirst == <<"{", "d", "}", "{", "m", "}">>
Templates == {TplTemp, TplLogs, TplStatic, TplNested, TplUnknown, TplRepeat, TplDayFirst}

\* templates and schemas the direct calls of createIndex / removeIndex use
ProvisionTemplates == {TplLogs, TplStatic}
Bodies == {"bodyLogs", "bodyStatus"}

MqttBlocks ==
    { [server |-> "broker", port |-> 1883],
      [port |-> 1883],
      [server |-> "broker"] }

ElasticsearchBlocks ==
    { [cluster |-> <<"http://es:9200">>],
      [cluster |-> <<>>],
      [api_key |-> "key"] }

OpensearchBlocks ==
    { [hosts |-> <<[host |-> "os"]>>],
      [hosts |-> <<[port |-> 9200]>>],
      [hosts |-> <<[host |-> "a"], [port |-> 1]>>],
      [hosts |-> <<>>],
      [tls |-> TRUE] }

\* the dicts that have key k with a value from S, and the dict without k
Optional(k, S) == {EmptyDict} \cup {k :> v : v \in S}

Configs ==
    { r @@ m @@ e @@ o :
        r \in Optional("removeIndex", {TRUE}),
        m \in Optional("mqtt", MqttBlocks),
        e \in Optional("elasticsearch", ElasticsearchBlocks),
        o \in Optional("opensearch", OpensearchBlocks) }

MapWildcard ==
    << [topic |-> <<"sensors", "+", "temp">>, elasticIndex |-> TplTemp, elasticBody |-> "bodyTemp"],
       [topic |-> <<"logs">>, elasticIndex |-> TplLogs, elasticBody |-> "bodyLogs"] >>

MapPlain ==
    << [topic |-> <<"logs">>, elasticIndex |-> TplLogs, elasticBody |-> "bodyLogs"],
       [topic |-> <<"status">>, elasticIndex |-> TplStatic, elasticBody |-> "bodyStatus"] >>

Mappings == {MapWildcard, MapPlain}

\* topic names on which publishers send
Topics == { <<"sensors", "room1", "temp">>, <<"logs">>, <<"status">> }

\* the date the process is started on: the next midnight changes day, month and year
NewYearsEve == [year |-> 2026, month |-> 12, day |-> 31]

\* dates before a change of day, of month and of year
StartDates == { [year |-> 2026, month |-> 10, day |-> 29],
                [year |-> 2027, month |-> 2, day |-> 28],
                NewYearsEve }

\* the indices of a mapping as they are named on date dt
IndicesOn(t2i, dt) ==
    { [name |-> prepareIndexName(t2i[i].elasticIndex, <<dt, dt, dt>>),
       body |-> t2i[i].elasticBody] : i \in DOMAIN t2i }

NoCall == [op |-> "none", arg |-> <<>>, reads |-> <<>>, result |-> <<>>,
           before |-> {}, creates |-> 0]

-----------------------------------------------------------------------------
(* The program: module-level script (lines 185-347) and the callbacks *)

Init ==
    /\ CONFIG \in Configs
    /\ topic2index \in Mappings
    /\ today = NewYearsEve
    /\ store \in {{}, IndicesOn(topic2index, today)}
    /\ pc = "defaults"
    /\ exitCode = Running
    /\ isElasticsearch = FALSE
    /\ isOpensearch = FALSE
    /\ es = None
    /\ ticks = 0
    /\ conn = "Disconnected"
    /\ subscribed = {}
    /\ delivered = <<>>
    /\ connects = 0
    /\ provIdx = 1
    /\ calls = <<>>
    /\ last = NoCall

\* sys.exit(code)
Exit(code) == pc' = "exited" /\ exitCode' = code

\* an exception nobody catches: traceback, interpreter exits with status 1
Crash == pc' = "crashed" /\ exitCode' = 1

\* lines 208-220
Defaults ==
    /\ pc = "defaults"
    /\ LET c1 == SetDefault(CONFIG, "removeIndex", FALSE) IN
       IF "mqtt" \notin DOMAIN c1
       THEN CONFIG' = c1 /\ Exit(1)
       ELSE LET m == SetDefault(SetDefault(SetDefault(SetDefault(c1["mqtt"],
                         "tls", FALSE), "client_id", None),
                         "hostname_validation", TRUE), "protocol_version", 3)
            IN  /\ CONFIG' = [c1 EXCEPT !["mqtt"] = m]
                /\ pc' = "elasticsearch"
                /\ UNCHANGED exitCode
    /\ UNCHANGED <<topic2index, isElasticsearch, isOpensearch, es, store, today,
                   ticks, conn, subscribed, delivered, connects, provIdx, calls, last>>

\* lines 221-230
CheckElasticsearch ==
    /\ pc = "elasticsearch"
    /\ IF "elasticsearch" \in DOMAIN CONFIG
       THEN /\ isElasticsearch' = TRUE
            /\ IF "cluster" \notin DOMAIN CONFIG["elasticsearch"]
               THEN Exit(1) /\ UNCHANGED CONFIG
               ELSE IF Len(CONFIG["elasticsearch"]["cluster"]) < 1
               THEN Exit(1) /\ UNCHANGED CONFIG
               ELSE /\ CONFIG' = [CONFIG EXCEPT !["elasticsearch"] =
                                     SetDefault(@, "api_key", None)]
                    /\ pc' = "opensearch"
                    /\ UNCHANGED exitCode
       ELSE /\ pc' = "opensearch"
            /\ UNCHANGED <<CONFIG, isElasticsearch, exitCode>>
    /\ UNCHANGED <<topic2index, isOpensearch, es, store, today, ticks, conn,
                   subscribed, delivered, connects, provIdx, calls, last>>

\* lines 246-257: defaults of the opensearch block
OpensearchDefaults(o) ==
    LET o1 == IF "username" \notin DOMAIN o
              THEN [k \in DOMAIN o \cup {"username", "password"} |->
                       IF k \in {"username", "password"} THEN None ELSE o[k]]
              ELSE o
        o2 == IF "password" \notin DOMAIN o1
              THEN [k \in DOMAIN o1 \cup {"username", "password"} |->
                       IF k \in {"username", "password"} THEN None ELSE o1[k]]
              ELSE o1
    IN  SetDefault(SetDefault(SetDefault(o2, "tls", FALSE), "verify_certs", FALSE),
                   "ca_certs_path", "/etc/ssl/certs/ca-certificates.crt")

\* lines 240-245: the loop over the hosts list; it writes the default port into
\* every entry it passes and stops with sys.exit(1) at the first entry without
\* "host", leaving the entries from there on as they were
HostsLoop(hosts) ==
    LET bad == {i \in 1..Len(hosts) : "host" \notin DOMAIN hosts[i]}
        stop == IF bad = {} THEN Len(hosts) + 1
                ELSE CHOOSE i \in bad : \A j \in bad : i <= j
    IN  [exit |-> bad # {},
         hosts |-> [i \in 1..Len(hosts) |->
                       IF i < stop THEN SetDefault(hosts[i], "port", 9200)
                       ELSE hosts[i]]]

\* lines 231-257
CheckOpensearch ==
    /\ pc = "opensearch"
    /\ IF "opensearch" \in DOMAIN CONFIG
       THEN /\ isOpensearch' = TRUE
            /\ LET o == CONFIG["opensearch"] IN
               IF "hosts" \notin DOMAIN o
               THEN Exit(1) /\ UNCHANGED CONFIG
               ELSE IF Len(o["hosts"]) < 1
               THEN Exit(1) /\ UNCHANGED CONFIG
               ELSE IF HostsLoop(o["hosts"]).exit
               THEN /\ Exit(1)
                    /\ CONFIG' = [CONFIG EXCEPT !["opensearch"]["hosts"] =
                                     HostsLoop(o["hosts"]).hosts]
               ELSE LET hosts == HostsLoop(o["hosts"]).hosts
                    IN  /\ CONFIG' = [CONFIG EXCEPT !["opensearch"] =
                                         OpensearchDefaults([o EXCEPT !["hosts"] = hosts])]
                        /\ pc' = "backend"
                        /\ UNCHANGED exitCode
       ELSE /\ pc' = "backend"
            /\ UNCHANGED <<CONFIG, isOpensearch, exitCode>>
    /\ UNCHANGED <<topic2index, isElasticsearch, es, store, today, ticks, conn,
                   subscribed, delivered, connects, provIdx, calls, last>>

\* backend validation that rejects only the configuration without any backend
BackendValid_OnlyNeither(isEs, isOs) == ~(~isOs /\ ~isEs)

\* lines 259-265: the backend selection is valid
BackendValid(isEs, isOs) == ~(isOs /\ isEs) /\ ~(~isOs /\ ~isEs)

CheckBackend ==
    /\ pc = "backend"
    /\ IF BackendValid(isElasticsearch, isOpensearch)
       THEN pc' = "construct" /\ UNCHANGED exitCode
       ELSE Exit(1)
    /\ UNCHANGED <<CONFIG, topic2index, isElasticsearch, isOpensearch, es, store,
                   today, ticks, conn, subscribed, delivered, connects, provIdx,
                   calls, last>>

\* lines 269-322: the store client and the MQTT client are constructed
ConstructClients ==
    /\ pc = "construct"
    /\ LET es1 == IF isElasticsearch THEN "Elasticsearch" ELSE None
           es2 == IF isOpensearch THEN "OpenSearch" ELSE es1
       IN  /\ es' = es2
           /\ calls' = calls
                  \o (IF isElasticsearch THEN <<Call("Elasticsearch", <<>>, "")>> ELSE <<>>)
                  \o (IF isOpensearch THEN <<Call("OpenSearch", <<>>, "")>> ELSE <<>>)
                  \o <<Call("mqtt.Client", <<>>, "")>>
    /\ pc' = "provision"
    /\ UNCHANGED <<CONFIG, topic2index, exitCode, isElasticsearch, isOpensearch,
                   store, today, ticks, conn, subscribed, delivered, connects,
                   provIdx, last>>

\* lines 325-328: one iteration of the initial provisioning loop
ProvisionEntry ==
    /\ pc = "provision"
    /\ provIdx <= Len(topic2index)
    /\ LET value == topic2index[provIdx] IN
       IF CONFIG["removeIndex"]
       THEN \E r \in ClockReads(today, MaxTicks - ticks, 6) :
              LET rm == removeIndex(store, calls, value.elasticIndex, TRUE, SubSeq(r, 1, 3))
                  cr == createIndex(rm.store, rm.calls, value.elasticIndex,
                                    value.elasticBody, SubSeq(r, 4, 6))
              IN  IF rm.exit
                  THEN /\ store' = rm.store
                       /\ calls' = rm.calls
                       /\ today' = r[3]
                       /\ ticks' = ticks + DaysBetween(today, r[3])
                       /\ Exit(0)
                       /\ UNCHANGED provIdx
                  ELSE /\ store' = cr.store
                       /\ calls' = cr.calls
                       /\ today' = r[6]
                       /\ ticks' = ticks + DaysBetween(today, r[6])
                       /\ provIdx' = provIdx + 1
                       /\ UNCHANGED <<pc, exitCode>>
       ELSE \E r \in ClockReads(today, MaxTicks - ticks, 3) :
              LET cr == createIndex(store, calls, value.elasticIndex, value.elasticBody, r)
              IN  /\ store' = cr.store
                  /\ calls' = cr.calls
                  /\ today' = r[3]
                  /\ ticks' = ticks + DaysBetween(today, r[3])
                  /\ provIdx' = provIdx + 1
                  /\ UNCHANGED <<pc, exitCode>>
    /\ UNCHANGED <<CONFIG, topic2index, isElasticsearch, isOpensearch, es, conn,
                   subscribed, delivered, connects, last>>

\* lines 330-336: callbacks registered, client.connect(server, port, 60); the
\* debug line 335 already reads both keys
Connect ==
    /\ pc = "provision"
    /\ provIdx > Len(topic2index)
    /\ IF "server" \in DOMAIN CONFIG["mqtt"] /\ "port" \in DOMAIN CONFIG["mqtt"]
       THEN /\ calls' = Append(calls, Call("connect", <<>>, ""))
            /\ conn' = "Connecting"
            /\ pc' = "loop"
            /\ UNCHANGED exitCode
       ELSE Crash /\ UNCHANGED <<calls, conn>>
    /\ UNCHANGED <<CONFIG, topic2index, isElasticsearch, isOpensearch, es, store,
                   today, ticks, subscribed, delivered, connects, provIdx, last>>

\* loop_forever (line 342) receives a CONNACK and calls on_connect
OnConnect ==
    /\ pc = "loop"
    /\ conn = "Connecting"
    /\ connects < MaxConnects
    /\ \E rc \in {0, 5} :
         LET oc == on_connect(topic2index, calls, rc) IN
         /\ connects' = connects + 1
         /\ calls' = oc.calls
         /\ IF oc.exit
            THEN Exit(1) /\ UNCHANGED <<conn, subscribed>>
            ELSE /\ conn' = "Connected"
                 /\ subscribed' = oc.subscribed
                 /\ UNCHANGED <<pc, exitCode>>
    /\ UNCHANGED <<CONFIG, topic2index, isElasticsearch, isOpensearch, es, store,
                   today, ticks, delivered, provIdx, last>>

\* the transport loses the connection; loop_forever reconnects on its own and
\* the new session starts without subscriptions
TransportDisconnect ==
    /\ pc = "loop"
    /\ conn = "Connected"
    /\ connects < MaxConnects
    /\ conn' = "Connecting"
    /\ subscribed' = {}
    /\ UNCHANGED <<CONFIG, topic2index, pc, exitCode, isElasticsearch, isOpensearch,
                   es, store, today, ticks, delivered, connects, provIdx, calls, last>>

\* loop_forever receives a PUBLISH for a subscribed filter and calls on_message;
\* an exception raised by the callback leaves loop_forever and ends the process
OnMessage ==
    /\ pc = "loop"
    /\ conn = "Connected"
    /\ Len(delivered) < MaxMsgs
    /\ \E topic \in Topics, payload \in Payloads :
         /\ \E f \in subscribed : TopicMatches(f, topic)
         /\ \E r \in ClockReads(today, MaxTicks - ticks, 6) :
              LET msg == [topic |-> topic, payload |-> payload]
                  om == on_message(store, calls, topic2index, msg, r)
                  now == IF om.used = 0 THEN today ELSE r[om.used]
              IN  /\ delivered' = Append(delivered, msg)
                  /\ store' = om.store
                  /\ calls' = om.calls
                  /\ today' = now
                  /\ ticks' = ticks + DaysBetween(today, now)
                  /\ IF om.raised = None
                     THEN UNCHANGED <<pc, exitCode>>
                     ELSE Crash
    /\ UNCHANGED <<CONFIG, topic2index, isElasticsearch, isOpensearch, es, conn,
                   subscribed, connects, provIdx, last>>

\* midnight passes
Tick ==
    /\ pc \notin {"exited", "crashed"}
    /\ ticks < MaxTicks
    /\ today' = NextDay(today)
    /\ ticks' = ticks + 1
    /\ UNCHANGED <<CONFIG, topic2index, pc, exitCode, isElasticsearch, isOpensearch,
                   es, store, conn, subscribed, delivered, connects, provIdx, calls, last>>

\* somebody else deletes an index while the bridge is receiving
ExternalDelete ==
    /\ pc = "loop"
    /\ \E r \in store : store' = store \ {r}
    /\ UNCHANGED <<CONFIG, topic2index, pc, exitCode, isElasticsearch, isOpensearch,
                   es, today, ticks, conn, subscribed, delivered, connects, provIdx,
                   calls, last>>

Next ==
    \/ Defaults
    \/ CheckElasticsearch
    \/ CheckOpensearch
    \/ CheckBackend
    \/ ConstructClients
    \/ ProvisionEntry
    \/ Connect
    \/ OnConnect
    \/ TransportDisconnect
    \/ OnMessage
    \/ Tick
    \/ ExternalDelete

Spec == Init /\ [][Next]_vars

-----------------------------------------------------------------------------
(* prepareIndexName called on its own, while the clock runs *)

Idle ==
    /\ CONFIG = EmptyDict
    /\ topic2index = <<>>
    /\ exitCode = Running
    /\ isElasticsearch = FALSE
    /\ isOpensearch = FALSE
    /\ es = None
    /\ ticks = 0
    /\ conn = "Disconnected"
    /\ subscribed = {}
    /\ delivered = <<>>
    /\ connects = 0
    /\ provIdx = 1
    /\ calls = <<>>
    /\ last = NoCall

InitResolve ==
    /\ Idle
    /\ pc = "call"
    /\ today \in StartDates
    /\ store = {}

ResolveCall ==
    /\ pc = "call"
    /\ \E index \in Templates, r \in ClockReads(today, MaxTicks - ticks, 3) :
         /\ last' = [op |-> "prepareIndexName", arg |-> index, reads |-> r,
                     result |-> prepareIndexName(index, r), before |-> {}, creates |-> 0]
         /\ today' = r[3]
         /\ ticks' = ticks + DaysBetween(today, r[3])
    /\ UNCHANGED <<CONFIG, topic2index, pc, exitCode, isElasticsearch, isOpensearch,
                   es, store, conn, subscribed, delivered, connects, provIdx, calls>>

NextResolve == ResolveCall \/ Tick

SpecResolve == InitResolve /\ [][NextResolve]_vars

-----------------------------------------------------------------------------
(* createIndex and removeIndex called directly on an arbitrary store *)

InitProvision ==
    /\ Idle
    /\ pc = "call"
    /\ today = NewYearsEve
    /\ store \in SUBSET IndicesOn(MapPlain, today)

DirectCalls == Cardinality({i \in DOMAIN calls : calls[i].op = "exists"})

CreateIndexCall ==
    /\ pc = "call"
    /\ DirectCalls < MaxDirectCalls
    /\ \E index \in ProvisionTemplates, body \in Bodies,
          r \in ClockReads(today, MaxTicks - ticks, 3) :
         LET c == createIndex(store, calls, index, body, r) IN
         /\ store' = c.store
         /\ calls' = c.calls
         /\ last' = [op |-> "createIndex", arg |-> index, reads |-> r,
                     result |-> prepareIndexName(index, r), before |-> store,
                     creates |-> Len(c.calls) - Len(calls) - 1]
         /\ today' = r[3]
         /\ ticks' = ticks + DaysBetween(today, r[3])
    /\ UNCHANGED <<CONFIG, topic2index, pc, exitCode, isElasticsearch, isOpensearch,
                   es, conn, subscribed, delivered, connects, provIdx>>

RemoveIndexCall ==
    /\ pc = "call"
    /\ DirectCalls < MaxDirectCalls
    /\ \E index \in ProvisionTemplates, exitAfterRemoval \in BOOLEAN,
          r \in ClockReads(today, MaxTicks - ticks, 3) :
         LET c == removeIndex(store, calls, index, exitAfterRemoval, r) IN
         /\ store' = c.store
         /\ calls' = c.calls
         /\ last' = [op |-> "removeIndex", arg |-> index, reads |-> r,
                     result |-> prepareIndexName(index, r), before |-> store,
                     creates |-> 0]
         /\ today' = r[3]
         /\ ticks' = ticks + DaysBetween(today, r[3])
         /\ IF c.exit THEN Exit(0) ELSE UNCHANGED <<pc, exitCode>>
    /\ UNCHANGED <<CONFIG, topic2index, isElasticsearch, isOpensearch, es, conn,
                   subscribed, delivered, connects, provIdx>>

\* somebody else deletes an index between two direct calls
OtherDelete ==
    /\ pc = "call"
    /\ \E r \in store : store' = store \ {r}
    /\ last' = [NoCall EXCEPT !.op = "external"]
    /\ UNCHANGED <<CONFIG, topic2index, pc, exitCode, isElasticsearch, isOpensearch,
                   es, today, ticks, conn, subscribed, delivered, connects, provIdx,
                   calls>>

NextProvision == CreateIndexCall \/ RemoveIndexCall \/ OtherDelete \/ Tick

SpecProvision == InitProvision /\ [][NextProvision]_vars

-----------------------------------------------------------------------------
(* Properties *)

\* the document-write calls made so far, in order
Writes == SelectSeq(calls, LAMBDA c : c.op = "index")

\* C1: for any sequence of delivered messages the store receives exactly one
\* document-write per message, in delivery order (as stated in the
\* specification; the program violates it)
C1_OneWritePerMessageInOrder ==
    /\ Len(Writes) = Len(delivered)
    /\ \A k \in 1..Len(delivered) :
         k <= Len(Writes) => Writes[k].body = delivered[k].payload

\* C2: a message on a mapped topic whose payload is not valid UTF-8 or not
\* valid JSON does not crash the receive loop: after it has been delivered the
\* process is still in loop_forever (as stated; the program violates it)
C2_MalformedPayloadKeepsLoop ==
    \A k \in 1..Len(delivered) :
        (HasKey(topic2index, delivered[k].topic) /\ ~PayloadParses(delivered[k].payload))
            => pc = "loop"

\* all clock readings of two calls show one and the same date
SameDate(r1, r2) == \A i \in 1..3 : r1[i] = r1[1] /\ r2[i] = r1[1]

\* C3: two createIndex calls in succession for the same template on the same
\* date: the first issues one create call if the index was absent and none if
\* it was present, the second issues no create call and leaves the set of
\* indices as the first call left it
C3_CreateIndexIdempotent ==
    [][ (/\ last.op = "createIndex"
         /\ last'.op = "createIndex"
         /\ calls' # calls
         /\ last'.arg = last.arg
         /\ SameDate(last.reads, last'.reads))
        => (/\ last.creates = (IF IndexExists(last.before, last.result) THEN 0 ELSE 1)
            /\ last'.creates = 0
            /\ store' = store
            /\ last'.before = store) ]_vars

\* C3 witness: the first call created the index, the second found it and skipped
C3_Witness ==
    /\ last.op = "createIndex"
    /\ last.arg = TplLogs
    /\ last.creates = 0
    /\ Len(calls) = 3
    /\ calls[2].op = "create"
    /\ calls[3].op = "exists"
    /\ calls[3].arg = calls[2].arg
    /\ ticks = 0

BothBackends == "elasticsearch" \in DOMAIN CONFIG /\ "opensearch" \in DOMAIN CONFIG
NoBackend == "elasticsearch" \notin DOMAIN CONFIG /\ "opensearch" \notin DOMAIN CONFIG

\* C4: with both backend blocks or neither in the configuration the process
\* never constructs a store client, issues no call on store or broker, never
\* connects, and terminates only with exit code 1; provisioning and everything
\* after it is reached only with exactly one of isElasticsearch / isOpensearch
C4_BackendExclusive ==
    /\ (BothBackends \/ NoBackend) =>
          /\ es = None
          /\ calls = <<>>
          /\ conn = "Disconnected"
          /\ pc \in {"defaults", "elasticsearch", "opensearch", "backend", "exited"}
          /\ pc = "exited" => exitCode = 1
    /\ pc \in {"construct", "provision", "loop"} => (isElasticsearch # isOpensearch)

\* C4 witness: both blocks are well-formed and the process has exited at the
\* mutual-exclusion check
C4_Witness ==
    /\ BothBackends
    /\ isElasticsearch /\ isOpensearch
    /\ pc = "exited"
    /\ exitCode = 1

\* index-exists calls made before the first create call: each run of the
\* delete step makes exactly one
DeleteStepsBeforeCreate ==
    LET creates == {i \in DOMAIN calls : calls[i].op = "create"}
        upto == IF creates = {} THEN Len(calls)
                ELSE CHOOSE i \in creates : \A j \in creates : i <= j
    IN  Cardinality({i \in 1..upto : calls[i].op = "exists"})

ProvisioningOver ==
    \/ pc = "loop"
    \/ pc = "exited" /\ exitCode = 0
    \/ pc = "provision" /\ provIdx > Len(topic2index)

\* C5: with the removeIndex flag set, once startup provisioning is over the
\* delete step has run for every mapping entry, and it ran for all of them
\* before the first create call (as stated; the program violates it)
C5_AllDeletedBeforeRecreate ==
    ("removeIndex" \in DOMAIN CONFIG /\ CONFIG["removeIndex"] /\ ProvisioningOver)
        => DeleteStepsBeforeCreate >= Len(topic2index)

\* C6: a delivered message whose topic matches a subscribed mapping key, with
\* a well-formed payload, is never left without a write to the index of that
\* key's entry (as stated; the program violates it for wildcard keys)
C6_MatchedMessageIsWritten ==
    \A k \in 1..Len(delivered) :
        (/\ \E f \in Keys(topic2index) : TopicMatches(f, delivered[k].topic)
         /\ PayloadParses(delivered[k].payload))
        => Len(Writes) >= k

\* the calls a step appended to the call log
NewCalls == SubSeq(calls', Len(calls) + 1, Len(calls'))

\* C7: whenever the connection is in state Connected the subscribed filters
\* are exactly the keys of the mapping table, and every step into Connected
\* issues one subscribe call per key
C7_ResubscribeOnConnect ==
    /\ [](conn = "Connected" => subscribed = Keys(topic2index))
    /\ [][ (conn # "Connected" /\ conn' = "Connected")
           => \A key \in Keys(topic2index) :
                \E i \in DOMAIN NewCalls :
                    NewCalls[i].op = "subscribe" /\ NewCalls[i].arg = key ]_vars

\* C7 witness: connected again after a reconnect, messages can be dispatched
C7_Witness ==
    /\ connects = 2
    /\ conn = "Connected"
    /\ pc = "loop"
    /\ Len(topic2index) = 2
    /\ Cardinality({i \in DOMAIN calls : calls[i].op = "subscribe"}) = 4

\* a configuration the specification calls fatally wrong
FatalConfig ==
    \/ "mqtt" \notin DOMAIN CONFIG
    \/ "mqtt" \in DOMAIN CONFIG /\ "server" \notin DOMAIN CONFIG["mqtt"]
    \/ "mqtt" \in DOMAIN CONFIG /\ "port" \notin DOMAIN CONFIG["mqtt"]
    \/ /\ "elasticsearch" \in DOMAIN CONFIG
       /\ \/ "cluster" \notin DOMAIN CONFIG["elasticsearch"]
          \/ /\ "cluster" \in DOMAIN CONFIG["elasticsearch"]
             /\ Len(CONFIG["elasticsearch"]["cluster"]) = 0
    \/ /\ "opensearch" \in DOMAIN CONFIG
       /\ \/ "hosts" \notin DOMAIN CONFIG["opensearch"]
          \/ /\ "hosts" \in DOMAIN CONFIG["opensearch"]
             /\ \/ Len(CONFIG["opensearch"]["hosts"]) = 0
                \/ \E i \in DOMAIN CONFIG["opensearch"]["hosts"] :
                      "host" \notin DOMAIN CONFIG["opensearch"]["hosts"][i]

\* C8: with a fatal configuration error the process issues no store operation
\* and no broker connect, and when it terminates it does so with exit code 1
\* (as stated; the program violates it for a missing mqtt.server / mqtt.port)
C8_FatalConfigBeforeAnyConnection ==
    FatalConfig =>
        /\ \A i \in DOMAIN calls : calls[i].op \notin (StoreOps \cup {"connect"})
        /\ pc \in {"exited", "crashed"} => exitCode = 1

\* C9: every document-write call targets an index that exists in the store at
\* the moment of the call, and an index that was absent when the message
\* arrived has been created with the schema of the message's mapping entry
C9_WriteTargetsExistingIndex ==
    [][ (Len(calls') > Len(calls) /\ calls'[Len(calls')].op = "index")
        => LET name == calls'[Len(calls')].arg
               msg == delivered'[Len(delivered')]
           IN  /\ IndexExists(store', name)
               /\ ~IndexExists(store, name)
                    => [name |-> name,
                        body |-> Lookup(topic2index, msg.topic).elasticBody] \in store' ]_vars

\* C9 witness: the index was gone when the message arrived (deleted by somebody
\* else, or the date changed), on_message created it and then wrote to it
C9_Witness ==
    /\ pc = "loop"
    /\ Len(calls) >= 2
    /\ calls[Len(calls)].op = "index"
    /\ calls[Len(calls) - 1].op = "create"
    /\ calls[Len(calls) - 1].arg = calls[Len(calls)].arg
    /\ IndexExists(store, calls[Len(calls)].arg)

\* C10: the name prepareIndexName returns is the substitution of year, month
\* and day of one single date among those the clock showed during the call
\* (as stated; the program violates it when midnight passes during the call)
C10_SingleDateResolution ==
    last.op = "prepareIndexName" =>
        \E d \in DatesFrom(last.reads[1], DaysBetween(last.reads[1], last.reads[3])) :
            last.result = prepareIndexName(last.arg, <<d, d, d>>)
====
